---- MODULE Spec2Model ----
(***************************************************************************)
(* The playback engine of flac_player: src/sdl/audio_engine.cpp (SDL3) and *)
(* src/sdl/audio_engine_sdl2.cpp (SDL2).  Both files define the same C     *)
(* API over one global PlayerState; the variable `variant` says which of   *)
(* the two translation units is linked in.                                 *)
(*                                                                         *)
(* The SDL library is the environment.  Its part of the state is kept in   *)
(* sdlInit (SDL_Init .. SDL_Quit), the liveness of the stream and device   *)
(* handles, devicePaused, streamBound, streamGain and queue (the data the  *)
(* device has still to consume).  The outcome of every SDL call that can   *)
(* fail is an input of the action that makes the call.                     *)
(*                                                                         *)
(* Abstractions:                                                           *)
(*  - a sample is the pair <<track, index>> the host passed, so that the   *)
(*    origin of queued data stays visible;                                 *)
(*  - sample rates are small numbers (frames per second) and seek times    *)
(*    are multiples of 1/TimeDen second; float arithmetic is exact;        *)
(*  - size_t is SizeBits wide;                                             *)
(*  - SDL2's stream converts n source frames to (n * deviceFreq) \div      *)
(*    sampleRate device frames of deviceChannels samples; the frames its   *)
(*    resampler holds back until a flush are not modelled;                 *)
(*  - the SDL3 stream reports its pending data in the format it was        *)
(*    created with (source == destination, line 80).                       *)
(***************************************************************************)
EXTENDS Integers, Sequences, FiniteSets, TLC

\* ------------------------------------------------------------------ bounds
\* longest buffer the host loads, in frames
MaxFrames == 2
\* width of size_t in the model (32 in the wasm32 build)
SizeBits == 5
\* seek times are multiples of 1/TimeDen second
TimeDen == 2

\* --------------------------------------------------------- program constants
SizeofFloat == 4
DefaultSampleRate == 44100
DefaultChannels == 2
DefaultDeviceFreq == 44100
DefaultDeviceChannels == 2
DefaultVolume == 1

Variants == {"sdl3", "sdl2"}
Tracks == {1, 2}
Rates == {1, 2}
Channels == {1, 2}
Volumes == {0, 1}
SizeModulus == 2 ^ SizeBits

VARIABLES
    variant,        \* which translation unit is linked
    sdlInit,        \* SDL: between SDL_Init and SDL_Quit
    aborted,        \* the process has trapped or aborted
    stream,         \* g_state.stream: "nullptr", "live" or "dangling"
    streamBound,    \* SDL3: the live stream is bound to the device
    streamGain,     \* SDL3: gain of the live stream (1 without one)
    deviceId,       \* g_state.deviceId: "0", "open" or "closed"
    devicePaused,   \* SDL: the open device is paused
    audioBuffer,    \* g_state.audioBuffer
    isPlaying,      \* g_state.isPlaying
    volume,         \* g_state.volume
    sampleRate,     \* g_state.sampleRate
    channels,       \* g_state.channels
    playHead,       \* g_state.playHead
    deviceFreq,     \* g_state.deviceFreq (SDL2)
    deviceChannels, \* g_state.deviceChannels (SDL2)
    queue,          \* pending pipeline data: a sequence of pushes
    lastOp,         \* history: the call that produced this state
    prePlaying,     \* history: isPlaying just before that call
    watch,          \* whether `observed` is kept
    observed,       \* history: last time reported while playing, or <<>>
    within,         \* history: what the last set_audio_data passed through
    quiet,          \* the host has made its last call
    again           \* history: that call was play or pause_audio, made twice
                    \* in a row

engine == <<stream, audioBuffer, isPlaying, volume, sampleRate, channels,
            playHead, deviceId, deviceFreq, deviceChannels>>
sdl == <<sdlInit, aborted, streamBound, streamGain, devicePaused, queue>>
history == <<lastOp, prePlaying, watch, observed, within, quiet, again>>
vars == <<variant, engine, sdl, history>>

\* ----------------------------------------------------------------- helpers
RECURSIVE SumBytes(_)
SumBytes(q) == IF q = <<>> THEN 0 ELSE Head(q).bytes + SumBytes(Tail(q))

\* the samples the host passes for a track of n samples
HostData(track, n) == [i \in 1..n |-> <<track, i>>]

\* audioBuffer[from .. size), 0-based as in the code
Segment(buf, from) == SubSeq(buf, from + 1, Len(buf))

Min(a, b) == IF a <= b THEN a ELSE b

\* rational times <<numerator, denominator>>, denominator > 0
TimeLE(a, b) == a[1] * b[2] <= b[1] * a[2]
TimeEQ(a, b) == a[1] * b[2] = b[1] * a[2]
TimeZero == <<0, 1>>
TimeInfinity == <<1, 0>>

\* a rational in lowest terms, so that comparing two of them stays in range
RECURSIVE GCD(_, _)
GCD(a, b) == IF b = 0 THEN a ELSE GCD(b, a % b)
Reduce(t) == LET g == GCD(t[1], t[2])
             IN  IF g = 0 THEN t ELSE <<t[1] \div g, t[2] \div g>>

\* history kept beside the program state
ResetOps == {"init_audio", "set_audio_data", "stop", "seek", "cleanup"}

\* one frame's worth of pipeline data, in bytes
FrameBytes == SizeofFloat * (IF variant = "sdl3" THEN channels ELSE deviceChannels)

\* --------------------------------------------- SDL3: src/sdl/audio_engine.cpp

\* SDL_GetAudioStreamAvailable / SDL_GetQueuedAudioSize
QueuedBytes == SumBytes(queue)

\* SDL_PutAudioStreamData(stream, &audioBuffer[from], (size - from) * sizeof(float))
PutAudioStreamData(q, buf, from) ==
    Append(q, [data |-> Segment(buf, from),
               bytes |-> (Len(buf) - from) * SizeofFloat])

\* SDL_ResumeAudioDevice / SDL_PauseAudioDevice act on an open device only
SetDevicePaused(p) == IF deviceId = "open" THEN p ELSE devicePaused

get_current_time_sdl3 ==
    IF stream = "nullptr" THEN TimeZero
    ELSE IF audioBuffer = <<>> THEN TimeZero
    ELSE LET queuedBytes == QueuedBytes
             samplesQueued == queuedBytes \div SizeofFloat
             totalSamplesToPlay == (Len(audioBuffer) - playHead) % SizeModulus
             samplesPlayedSinceSeek ==
                 (totalSamplesToPlay - samplesQueued) % SizeModulus
             currentSampleIndex ==
                 (playHead + samplesPlayedSinceSeek) % SizeModulus
             clamped == IF currentSampleIndex > Len(audioBuffer)
                        THEN Len(audioBuffer) ELSE currentSampleIndex
             frames == clamped \div channels
         IN  Reduce(<<frames, sampleRate>>)

\* --------------------------------------- SDL2: src/sdl/audio_engine_sdl2.cpp

\* SDL_AudioStreamPut + SDL_AudioStreamAvailable + SDL_AudioStreamGet:
\* the bytes the stream hands back for n source samples
ConvertedBytes(n) ==
    IF stream # "live" THEN 0
    ELSE (((n \div channels) * deviceFreq) \div sampleRate)
         * deviceChannels * SizeofFloat

\* SDL_QueueAudio(deviceId, converted, got), made only if got > 0
QueueAudio(q, buf, from) ==
    LET got == ConvertedBytes(Len(buf) - from)
    IN  IF got > 0 /\ deviceId = "open"
        THEN Append(q, [data |-> Segment(buf, from), bytes |-> got])
        ELSE q

get_current_time_sdl2 ==
    IF deviceId = "0" \/ audioBuffer = <<>> THEN TimeZero
    \* size / 0.0 is +infinity, which the clamp lets through
    ELSE IF channels * sampleRate = 0 THEN TimeInfinity
    ELSE LET queuedBytes == IF deviceId = "open" THEN QueuedBytes ELSE 0
             \* queuedSeconds = queuedBytes / (sizeof(float) * deviceChannels * deviceFreq)
             qNum == queuedBytes
             qDen == SizeofFloat * deviceChannels * deviceFreq
             \* totalDuration = size / (channels * sampleRate)
             tNum == Len(audioBuffer)
             tDen == channels * sampleRate
             currentTime == Reduce(<<tNum * qDen - qNum * tDen, tDen * qDen>>)
             totalDuration == Reduce(<<tNum, tDen>>)
         IN  IF currentTime[1] < 0 THEN TimeZero
             ELSE IF ~TimeLE(currentTime, totalDuration) THEN totalDuration
             ELSE currentTime

get_current_time ==
    IF variant = "sdl3" THEN get_current_time_sdl3 ELSE get_current_time_sdl2

\* the buffer's total duration, as both variants report it at the end
TotalDuration == Reduce(<<Len(audioBuffer) \div channels, sampleRate>>)

\* ----------------------------------------------------------------- history
\* nothing seen within a call: never two streams or two devices alive, no
\* pipeline holding data of a buffer that is gone, the action's result reached
NothingSeen == [two |-> FALSE, stale |-> FALSE, agrees |-> TRUE]

\* a queued push holds a tail of the buffer buf
FromBuffer(push, buf) ==
    /\ Len(push.data) <= Len(buf)
    /\ push.data = Segment(buf, Len(buf) - Len(push.data))

\* the points (states between two statements) of one set_audio_data call,
\* each <<streams alive, devices alive, pending data, buffer>>, summed up: whether two streams or two devices were alive at one point,
\* whether at some point the pipeline held data that is not of the buffer of
\* that point, and whether the last point is the state the call returns in
Summary(points) ==
    LET n == Len(points)
    IN  [two |-> \E i \in 1..n : points[i][1] > 1 \/ points[i][2] > 1,
         stale |-> \E i \in 1..n : \E j \in 1..Len(points[i][3]) :
                      ~FromBuffer(points[i][3][j], points[i][4]),
         agrees |-> /\ points[n][3] = queue'
                    /\ points[n][4] = audioBuffer'
                    /\ (points[n][1] = 1) = (stream' = "live")
                    /\ (points[n][2] = 1) = (deviceId' = "open")]

\* the calls whose immediate repetition is recorded in `again`
RepeatOps == {"play", "pause_audio"}

CalledAs(op, seen) ==
    /\ within' = seen
    /\ again' = (op \in RepeatOps /\ lastOp = op)
    /\ quiet' = quiet
    /\ lastOp' = op
    /\ prePlaying' = isPlaying
    /\ watch' = watch
    /\ observed' = IF ~watch THEN observed
                   ELSE IF isPlaying' THEN get_current_time'
                   ELSE IF op \in ResetOps THEN <<>> ELSE observed

Called(op) == CalledAs(op, within)

\* the return of a set_audio_data call that passed through points
CalledLoad(points) ==
    \E pts \in {points} : CalledAs("set_audio_data", Summary(pts))

\* the process traps or aborts inside call op: nothing of it is left
AbortProcess(op) ==
    /\ aborted' = TRUE
    /\ sdlInit' = FALSE
    /\ stream' = "nullptr" /\ streamBound' = FALSE /\ streamGain' = DefaultVolume
    /\ deviceId' = "0" /\ devicePaused' = TRUE
    /\ audioBuffer' = <<>> /\ isPlaying' = FALSE /\ volume' = DefaultVolume
    /\ sampleRate' = DefaultSampleRate /\ channels' = DefaultChannels
    /\ playHead' = 0
    /\ deviceFreq' = DefaultDeviceFreq /\ deviceChannels' = DefaultDeviceChannels
    /\ queue' = <<>>
    /\ lastOp' = op /\ prePlaying' = FALSE /\ observed' = <<>>
    /\ within' = NothingSeen /\ again' = FALSE
    /\ UNCHANGED <<variant, watch, quiet>>

Start(w) ==
    /\ variant \in Variants
    /\ sdlInit = FALSE
    /\ aborted = FALSE
    /\ stream = "nullptr"
    /\ streamBound = FALSE
    /\ streamGain = DefaultVolume
    /\ deviceId = "0"
    /\ devicePaused = TRUE
    /\ audioBuffer = <<>>
    /\ isPlaying = FALSE
    /\ volume = DefaultVolume
    /\ sampleRate = DefaultSampleRate
    /\ channels = DefaultChannels
    /\ playHead = 0
    /\ deviceFreq = DefaultDeviceFreq
    /\ deviceChannels = DefaultDeviceChannels
    /\ queue = <<>>
    /\ lastOp = "start"
    /\ prePlaying = FALSE
    /\ watch = w
    /\ observed = <<>>
    /\ within = NothingSeen
    /\ quiet = FALSE
    /\ again = FALSE

Init == Start(FALSE)

\* the same program with the history variable `observed` kept
InitWatch == Start(TRUE)

\* ------------------------------------------------------------------ inputs

\* the buffers the host loads: n whole frames of a track
\* (an empty buffer is passed in one format only: no call reads the format
\* of an empty buffer)
Loads ==
    {ld \in [track : Tracks, n : 0..MaxFrames, ch : Channels, rate : Rates] :
        ld.n = 0 => (ld.ch = 1 /\ ld.rate = 1)}
\* (a load that names no channel still passes n samples)
LoadBuffer(ld) == HostData(ld.track, ld.n * (IF ld.ch > 0 THEN ld.ch ELSE 1))
\* the host never loads the track it has loaded already
NextTrack == IF audioBuffer # <<>> /\ audioBuffer[1][1] = 1 THEN 2 ELSE 1
\* the load to stand for all loads where the arguments are never read
AnyLoad == [track |-> NextTrack, n |-> 1, ch |-> 1, rate |-> 1]

\* the seek times the host passes, in units of 1/TimeDen second: around the
\* buffer, below zero, and large enough to leave size_t
SeekTimes ==
    (-1 .. TimeDen * (MaxFrames + 1))
    \cup {TimeDen * k : k \in {SizeModulus \div 4, SizeModulus \div 2, SizeModulus}}

\* a float truncated toward zero, n/d
Trunc(n, d) == IF n >= 0 THEN n \div d ELSE -((-n) \div d)

\* (size_t)x for a float x with integral part v: defined when v fits; out of
\* range the conversion is undefined: the wasm build saturates or traps (-1)
FloatToSizeT(v) ==
    IF 0 <= v /\ v < SizeModulus THEN {v}
    ELSE {IF v < 0 THEN 0 ELSE SizeModulus - 1, -1}

\* seek's index arithmetic, from f = (size_t)(time * sampleRate); the same
\* text in both files
SampleIndex(f) ==
    LET sampleIndex == (f * channels) % SizeModulus
        aligned == sampleIndex - (sampleIndex % channels)
    IN  IF aligned >= Len(audioBuffer) THEN Len(audioBuffer) ELSE aligned

\* ------------------------------------------------------------ SDL3 actions

\* The host opens the device once; a second init_audio with the device still
\* open would leak it and is not part of the host's protocol.
init_audio_sdl3 ==
    /\ variant = "sdl3" /\ ~aborted /\ deviceId # "open"
    /\ \E sdlOk \in BOOLEAN, openOk \in BOOLEAN :
         \* when SDL_Init fails the device is not opened at all
         /\ sdlOk \/ openOk
         /\ IF ~sdlOk
            THEN UNCHANGED <<deviceId, devicePaused, sdlInit>>
            ELSE /\ sdlInit' = TRUE
                 /\ deviceId' = IF openOk THEN "open" ELSE "0"
                 \* an SDL3 device starts unpaused
                 /\ devicePaused' = ~openOk
    /\ UNCHANGED <<variant, aborted, stream, streamBound, streamGain,
                   audioBuffer, isPlaying, volume, sampleRate, channels,
                   playHead, deviceFreq, deviceChannels, queue>>
    /\ Called("init_audio")

\* what the calls made by set_audio_data can do
AllocFailures == {"alloc_keep", "alloc_empty", "alloc_abort"}
LoadOutcomes == AllocFailures \cup {"ok", "stream_fail", "bind_fail"}

\* one point of a call: the streams and devices alive, the pending data and
\* the buffer
Point(s, d, q, buf) == <<s, d, q, buf>>

\* the buffer audioBuffer.assign(data, data + length) leaves
Assigned(data, outcome) ==
    IF outcome = "alloc_keep" THEN audioBuffer
    ELSE IF outcome = "alloc_empty" THEN <<>> ELSE data

\* a set_audio_data that replaced the buffer first and destroyed the stream
\* after that (replace-then-unbind)
set_audio_data_points_replace_first(data, outcome) ==
    LET s == IF stream = "live" THEN 1 ELSE 0
        d == IF deviceId = "open" THEN 1 ELSE 0
        new == IF outcome = "stream_fail" THEN 0 ELSE 1
        buf == Assigned(data, outcome)
    IN  <<Point(s, d, queue, audioBuffer),
          Point(s, d, queue, buf),
          Point(0, d, <<>>, buf)>>
        \o IF outcome \in AllocFailures THEN <<>>
           ELSE <<Point(new, d, <<>>, buf)>>

\* the points of set_audio_data, statement by statement
set_audio_data_points_sdl3(data, outcome) ==
    LET s == IF stream = "live" THEN 1 ELSE 0
        d == IF deviceId = "open" THEN 1 ELSE 0
        new == IF outcome = "stream_fail" THEN 0 ELSE 1
        buf == Assigned(data, outcome)
    IN  <<Point(s, d, queue, audioBuffer),
          \* 54-57: SDL_DestroyAudioStream, with the data it holds
          Point(0, d, <<>>, audioBuffer),
          \* 60-67: audioBuffer.assign
          Point(0, d, <<>>, buf)>>
        \o IF outcome \in AllocFailures THEN <<>>
           \* 80-89: SDL_CreateAudioStream, SDL_BindAudioStream
           ELSE <<Point(new, d, <<>>, buf)>>

set_audio_data_sdl3(data, ch, rate, outcome) ==
    /\ variant = "sdl3" /\ ~aborted
    /\ \/ /\ outcome = "alloc_abort"
          \* the copy fails in a build without exception support
          /\ AbortProcess("set_audio_data")
       \/ /\ outcome # "alloc_abort"
          /\ CASE outcome \in {"alloc_keep", "alloc_empty"} ->
                    \* assign throws: the vector is left as it was, or empty
                    /\ stream' = "nullptr" /\ streamBound' = FALSE /\ queue' = <<>>
                    /\ audioBuffer' = IF outcome = "alloc_keep" THEN audioBuffer
                                      ELSE <<>>
                    /\ streamGain' = DefaultVolume
                    /\ UNCHANGED <<channels, sampleRate, playHead, isPlaying>>
               [] outcome = "stream_fail" ->
                    /\ audioBuffer' = data
                    /\ channels' = ch /\ sampleRate' = rate
                    /\ playHead' = 0 /\ isPlaying' = FALSE
                    /\ stream' = "nullptr" /\ streamBound' = FALSE /\ queue' = <<>>
                    /\ streamGain' = DefaultVolume
               [] OTHER ->
                    /\ audioBuffer' = data
                    /\ channels' = ch /\ sampleRate' = rate
                    /\ playHead' = 0 /\ isPlaying' = FALSE
                    /\ stream' = "live" /\ queue' = <<>>
                    /\ streamGain' = DefaultVolume
                    /\ streamBound' = (outcome = "ok" /\ deviceId = "open")
          /\ UNCHANGED <<variant, aborted, sdlInit, deviceId, devicePaused,
                         volume, deviceFreq, deviceChannels>>
          /\ CalledLoad(set_audio_data_points_sdl3(data, outcome))

\* a play() that enqueues whenever it is called on a loaded buffer
play_sdl3_post_pushes_again ==
    IF stream = "nullptr" \/ audioBuffer = <<>>
    THEN [isPlaying |-> isPlaying, devicePaused |-> devicePaused, queue |-> queue]
    ELSE [isPlaying |-> TRUE,
          devicePaused |-> SetDevicePaused(FALSE),
          queue |-> IF playHead < Len(audioBuffer)
                    THEN PutAudioStreamData(queue, audioBuffer, playHead)
                    ELSE queue]

\* the state play() leaves, for the fields it writes
play_sdl3_post ==
    IF stream = "nullptr" \/ audioBuffer = <<>> \/ isPlaying
    THEN [isPlaying |-> isPlaying, devicePaused |-> devicePaused, queue |-> queue]
    ELSE [isPlaying |-> TRUE,
          devicePaused |-> SetDevicePaused(FALSE),
          queue |-> IF QueuedBytes = 0 /\ playHead < Len(audioBuffer)
                    THEN PutAudioStreamData(queue, audioBuffer, playHead)
                    ELSE queue]

play_sdl3 ==
    /\ variant = "sdl3" /\ ~aborted
    /\ isPlaying' = play_sdl3_post.isPlaying
    /\ devicePaused' = play_sdl3_post.devicePaused
    /\ queue' = play_sdl3_post.queue
    /\ UNCHANGED <<variant, sdlInit, aborted, stream, streamBound, streamGain,
                   deviceId, audioBuffer, volume, sampleRate, channels,
                   playHead, deviceFreq, deviceChannels>>
    /\ Called("play")

pause_audio_sdl3 ==
    /\ variant = "sdl3" /\ ~aborted
    /\ IF ~isPlaying
       THEN UNCHANGED <<isPlaying, devicePaused>>
       ELSE /\ isPlaying' = FALSE
            /\ devicePaused' = SetDevicePaused(TRUE)
    /\ UNCHANGED <<variant, sdlInit, aborted, stream, streamBound, streamGain,
                   deviceId, audioBuffer, volume, sampleRate, channels,
                   playHead, deviceFreq, deviceChannels, queue>>
    /\ Called("pause_audio")

resume_audio_sdl3 ==
    /\ variant = "sdl3" /\ ~aborted
    /\ IF isPlaying
       THEN UNCHANGED <<isPlaying, devicePaused>>
       ELSE /\ isPlaying' = TRUE
            /\ devicePaused' = SetDevicePaused(FALSE)
    /\ UNCHANGED <<variant, sdlInit, aborted, stream, streamBound, streamGain,
                   deviceId, audioBuffer, volume, sampleRate, channels,
                   playHead, deviceFreq, deviceChannels, queue>>
    /\ Called("resume_audio")

\* a stop() that leaves the pending data in the stream
stop_sdl3_keeps_pending ==
    /\ variant = "sdl3" /\ ~aborted
    /\ IF stream = "nullptr"
       THEN UNCHANGED <<isPlaying, playHead>>
       ELSE /\ isPlaying' = FALSE
            /\ playHead' = 0
    /\ UNCHANGED <<variant, sdlInit, aborted, stream, streamBound, streamGain,
                   deviceId, devicePaused, audioBuffer, volume, sampleRate,
                   channels, deviceFreq, deviceChannels, queue>>
    /\ Called("stop")

stop_sdl3 ==
    /\ variant = "sdl3" /\ ~aborted
    /\ IF stream = "nullptr"
       THEN UNCHANGED <<queue, isPlaying, playHead>>
       ELSE /\ queue' = <<>>
            /\ isPlaying' = FALSE
            /\ playHead' = 0
    /\ UNCHANGED <<variant, sdlInit, aborted, stream, streamBound, streamGain,
                   deviceId, devicePaused, audioBuffer, volume, sampleRate,
                   channels, deviceFreq, deviceChannels>>
    /\ Called("stop")

seek_sdl3(time) ==
    /\ variant = "sdl3" /\ ~aborted
    /\ \E f \in FloatToSizeT(Trunc(time * sampleRate, TimeDen)) :
         \/ /\ stream # "nullptr" /\ audioBuffer # <<>> /\ f = -1
            /\ AbortProcess("seek")
         \/ /\ stream = "nullptr" \/ audioBuffer = <<>> \/ f # -1
            /\ IF stream = "nullptr" \/ audioBuffer = <<>>
               THEN UNCHANGED <<playHead, queue>>
               ELSE /\ playHead' = SampleIndex(f)
                    /\ queue' = IF isPlaying /\ Len(audioBuffer) - playHead' > 0
                                THEN PutAudioStreamData(<<>>, audioBuffer, playHead')
                                ELSE <<>>
            /\ UNCHANGED <<variant, aborted, sdlInit, stream, streamBound,
                           streamGain, deviceId, devicePaused, audioBuffer,
                           isPlaying, volume, sampleRate, channels, deviceFreq,
                           deviceChannels>>
            /\ Called("seek")

set_volume_sdl3(vol) ==
    /\ variant = "sdl3" /\ ~aborted
    /\ volume' = vol
    /\ streamGain' = IF stream # "nullptr" THEN vol ELSE streamGain
    /\ UNCHANGED <<variant, sdlInit, aborted, stream, streamBound, deviceId,
                   devicePaused, audioBuffer, isPlaying, sampleRate, channels,
                   playHead, deviceFreq, deviceChannels, queue>>
    /\ Called("set_volume")

cleanup_sdl3 ==
    /\ variant = "sdl3" /\ ~aborted
    /\ stream' = "nullptr" /\ streamBound' = FALSE /\ queue' = <<>>
    /\ deviceId' = "0" /\ devicePaused' = TRUE
    /\ audioBuffer' = <<>>
    /\ sdlInit' = FALSE
    /\ streamGain' = DefaultVolume
    /\ UNCHANGED <<variant, aborted, isPlaying, volume,
                   sampleRate, channels, playHead, deviceFreq, deviceChannels>>
    /\ Called("cleanup")

\* ------------------------------------------------------------ SDL2 actions

init_audio_sdl2 ==
    /\ variant = "sdl2" /\ ~aborted /\ deviceId # "open"
    /\ \E sdlOk \in BOOLEAN, openOk \in BOOLEAN :
         \* when SDL_Init fails the device is not opened at all
         /\ sdlOk \/ openOk
         /\ IF ~sdlOk
            THEN UNCHANGED <<deviceId, sdlInit, deviceFreq, deviceChannels>>
            ELSE /\ sdlInit' = TRUE
                 /\ deviceId' = IF openOk THEN "open" ELSE "0"
                 \* allowed_changes is 0: have is want
                 /\ deviceFreq' = IF openOk THEN DefaultDeviceFreq ELSE deviceFreq
                 /\ deviceChannels' = IF openOk THEN DefaultDeviceChannels
                                      ELSE deviceChannels
    \* an SDL2 device starts paused
    /\ UNCHANGED <<variant, aborted, stream, streamBound, streamGain,
                   devicePaused, audioBuffer, isPlaying, volume, sampleRate,
                   channels, playHead, queue>>
    /\ Called("init_audio")

LoadOutcomes2 == AllocFailures \cup {"ok", "open_fail", "stream_fail"}

\* freeing or clearing a stream that was already freed is undefined: the
\* call goes unnoticed or the process aborts
UseStream(abort) == stream = "dangling" /\ abort

\* the points of set_audio_data, statement by statement
set_audio_data_points_sdl2(data, outcome) ==
    LET s == IF stream = "live" THEN 1 ELSE 0
        d == IF deviceId = "open" THEN 1 ELSE 0
        opened == IF outcome = "open_fail" \/ ~sdlInit THEN 0 ELSE 1
        new == IF outcome = "stream_fail" THEN 0 ELSE 1
        buf == Assigned(data, outcome)
    IN  <<Point(s, d, queue, audioBuffer),
          \* 58-61: SDL_FreeAudioStream
          Point(0, d, queue, audioBuffer),
          \* 63-66: SDL_CloseAudioDevice, with the data queued on it
          Point(0, 0, <<>>, audioBuffer),
          \* 68-73: audioBuffer.assign
          Point(0, 0, <<>>, buf)>>
        \o IF outcome \in AllocFailures THEN <<>>
           \* 96-101: SDL_OpenAudioDevice
           ELSE IF opened = 0 THEN <<Point(0, 0, <<>>, buf)>>
           \* 109-115: SDL_NewAudioStream
           ELSE <<Point(0, 1, <<>>, buf), Point(new, 1, <<>>, buf)>>

set_audio_data_sdl2(data, ch, rate, outcome, haveFreq, haveChannels, abort) ==
    /\ variant = "sdl2" /\ ~aborted
    /\ \/ /\ UseStream(abort) \/ outcome = "alloc_abort"
          /\ AbortProcess("set_audio_data")
       \/ /\ ~UseStream(abort) /\ outcome # "alloc_abort"
          \* the stream is freed and the device closed, with its queue
          /\ queue' = <<>> /\ devicePaused' = TRUE
          /\ CASE outcome \in {"alloc_keep", "alloc_empty"} ->
                    /\ stream' = "nullptr" /\ deviceId' = "0"
                    /\ audioBuffer' = IF outcome = "alloc_keep" THEN audioBuffer
                                      ELSE <<>>
                    /\ UNCHANGED <<channels, sampleRate, playHead, isPlaying,
                                   deviceFreq, deviceChannels>>
               [] outcome = "open_fail" \/ ~sdlInit ->
                    /\ audioBuffer' = data
                    /\ channels' = ch /\ sampleRate' = rate
                    /\ playHead' = 0 /\ isPlaying' = FALSE
                    /\ stream' = "nullptr" /\ deviceId' = "0"
                    /\ UNCHANGED <<deviceFreq, deviceChannels>>
               [] OTHER ->
                    /\ audioBuffer' = data
                    /\ channels' = ch /\ sampleRate' = rate
                    /\ playHead' = 0 /\ isPlaying' = FALSE
                    /\ deviceId' = "open"
                    /\ deviceFreq' = haveFreq /\ deviceChannels' = haveChannels
                    /\ stream' = IF outcome = "stream_fail" THEN "nullptr"
                                 ELSE "live"
          /\ UNCHANGED <<variant, aborted, sdlInit, streamBound, streamGain,
                         volume>>
          /\ CalledLoad(set_audio_data_points_sdl2(data, outcome))

play_sdl2_post ==
    IF deviceId = "0" \/ audioBuffer = <<>> \/ isPlaying
    THEN [isPlaying |-> isPlaying, devicePaused |-> devicePaused, queue |-> queue]
    ELSE [isPlaying |-> TRUE,
          devicePaused |-> SetDevicePaused(FALSE),
          queue |-> IF QueuedBytes = 0 /\ playHead < Len(audioBuffer)
                    THEN QueueAudio(queue, audioBuffer, playHead)
                    ELSE queue]

play_sdl2 ==
    /\ variant = "sdl2" /\ ~aborted
    /\ isPlaying' = play_sdl2_post.isPlaying
    /\ devicePaused' = play_sdl2_post.devicePaused
    /\ queue' = play_sdl2_post.queue
    /\ UNCHANGED <<variant, sdlInit, aborted, stream, streamBound, streamGain,
                   deviceId, audioBuffer, volume, sampleRate, channels,
                   playHead, deviceFreq, deviceChannels>>
    /\ Called("play")

pause_audio_sdl2 ==
    /\ variant = "sdl2" /\ ~aborted
    /\ IF ~isPlaying
       THEN UNCHANGED <<isPlaying, devicePaused>>
       ELSE /\ isPlaying' = FALSE
            /\ devicePaused' = SetDevicePaused(TRUE)
    /\ UNCHANGED <<variant, sdlInit, aborted, stream, streamBound, streamGain,
                   deviceId, audioBuffer, volume, sampleRate, channels,
                   playHead, deviceFreq, deviceChannels, queue>>
    /\ Called("pause_audio")

resume_audio_sdl2 ==
    /\ variant = "sdl2" /\ ~aborted
    /\ IF isPlaying
       THEN UNCHANGED <<isPlaying, devicePaused, queue>>
       ELSE /\ isPlaying' = play_sdl2_post.isPlaying
            /\ devicePaused' = play_sdl2_post.devicePaused
            /\ queue' = play_sdl2_post.queue
    /\ UNCHANGED <<variant, sdlInit, aborted, stream, streamBound, streamGain,
                   deviceId, audioBuffer, volume, sampleRate, channels,
                   playHead, deviceFreq, deviceChannels>>
    /\ Called("resume_audio")

stop_sdl2(abort) ==
    /\ variant = "sdl2" /\ ~aborted
    /\ \/ /\ deviceId # "0" /\ UseStream(abort)
          /\ AbortProcess("stop")
       \/ /\ deviceId = "0" \/ ~UseStream(abort)
          /\ IF deviceId = "0"
             THEN UNCHANGED <<queue, isPlaying, playHead>>
             ELSE /\ queue' = <<>>
                  /\ isPlaying' = FALSE
                  /\ playHead' = 0
          /\ UNCHANGED <<variant, aborted, sdlInit, stream, streamBound,
                         streamGain, deviceId, devicePaused, audioBuffer, volume,
                         sampleRate, channels, deviceFreq, deviceChannels>>
          /\ Called("stop")

seek_sdl2(time) ==
    /\ variant = "sdl2" /\ ~aborted
    /\ \E f \in FloatToSizeT(Trunc(time * sampleRate, TimeDen)) :
         \* the conversion traps, or the remainder by channels == 0 does
         \/ /\ deviceId # "0" /\ audioBuffer # <<>>
            /\ f = -1 \/ channels = 0
            /\ AbortProcess("seek")
         \/ /\ deviceId = "0" \/ audioBuffer = <<>> \/ (f # -1 /\ channels # 0)
            /\ IF deviceId = "0" \/ audioBuffer = <<>>
               THEN UNCHANGED <<playHead, queue>>
               ELSE /\ playHead' = SampleIndex(f)
                    /\ queue' = IF isPlaying
                                THEN QueueAudio(<<>>, audioBuffer, playHead')
                                ELSE <<>>
            /\ UNCHANGED <<variant, aborted, sdlInit, stream, streamBound,
                           streamGain, deviceId, devicePaused, audioBuffer,
                           isPlaying, volume, sampleRate, channels, deviceFreq,
                           deviceChannels>>
            /\ Called("seek")

set_volume_sdl2(vol) ==
    /\ variant = "sdl2" /\ ~aborted
    /\ volume' = vol
    /\ UNCHANGED <<variant, sdlInit, aborted, stream, streamBound, streamGain,
                   deviceId, devicePaused, audioBuffer, isPlaying, sampleRate,
                   channels, playHead, deviceFreq, deviceChannels, queue>>
    /\ Called("set_volume")

cleanup_sdl2(abort) ==
    /\ variant = "sdl2" /\ ~aborted
    /\ \/ /\ UseStream(abort)
          /\ AbortProcess("cleanup")
       \/ /\ ~UseStream(abort)
          \* the handles are released but not cleared
          /\ stream' = IF stream = "nullptr" THEN "nullptr" ELSE "dangling"
          /\ deviceId' = IF deviceId = "0" THEN "0" ELSE "closed"
          /\ queue' = <<>> /\ devicePaused' = TRUE
          /\ audioBuffer' = <<>>
          /\ sdlInit' = FALSE
          /\ UNCHANGED <<variant, aborted, streamBound, streamGain, isPlaying,
                         volume, sampleRate, channels, playHead, deviceFreq,
                         deviceChannels>>
          /\ Called("cleanup")

\* ------------------------------------------------------------- environment

\* a device that never consumes the last frame of what is pending
Drain_keeps_last_frame ==
    /\ ~aborted /\ deviceId = "open" /\ ~devicePaused /\ queue # <<>>
    /\ variant = "sdl3" => stream = "live" /\ streamBound
    /\ QueuedBytes > FrameBytes
    /\ LET take == Min(FrameBytes, Head(queue).bytes)
           left == Head(queue).bytes - take
       IN  queue' = IF left = 0 THEN Tail(queue)
                    ELSE <<[Head(queue) EXCEPT !.bytes = left]>> \o Tail(queue)
    /\ UNCHANGED <<variant, engine, sdlInit, aborted, streamBound, streamGain,
                   devicePaused>>
    /\ Called("drain")

\* the device consumes one frame of the pending data
Drain ==
    /\ ~aborted /\ deviceId = "open" /\ ~devicePaused /\ queue # <<>>
    /\ variant = "sdl3" => stream = "live" /\ streamBound
    /\ LET take == Min(FrameBytes, Head(queue).bytes)
           left == Head(queue).bytes - take
       IN  queue' = IF left = 0 THEN Tail(queue)
                    ELSE <<[Head(queue) EXCEPT !.bytes = left]>> \o Tail(queue)
    /\ UNCHANGED <<variant, engine, sdlInit, aborted, streamBound, streamGain,
                   devicePaused>>
    /\ Called("drain")

\* the arguments and outcomes of a set_audio_data call that make a difference
LoadsFor(outcome) ==
    IF outcome \in AllocFailures THEN {AnyLoad}
    ELSE {ld \in Loads : ld.track = NextTrack}

\* the format SDL_OpenAudioDevice reports in `have`
HaveFor(outcome) ==
    IF outcome = "ok" THEN {<<1, 1>>, <<2, 2>>} ELSE {<<1, 1>>}

\* whether a use of a freed stream aborts
AbortChoices == IF stream = "dangling" THEN BOOLEAN ELSE {FALSE}

Next ==
    \/ init_audio_sdl3
    \/ /\ variant = "sdl3"
       /\ \E outcome \in LoadOutcomes : \E ld \in LoadsFor(outcome) :
            set_audio_data_sdl3(LoadBuffer(ld), ld.ch, ld.rate, outcome)
    \/ play_sdl3
    \/ pause_audio_sdl3
    \/ resume_audio_sdl3
    \/ stop_sdl3
    \/ /\ variant = "sdl3"
       /\ \E time \in SeekTimes : seek_sdl3(time)
    \/ \E vol \in Volumes : set_volume_sdl3(vol)
    \/ cleanup_sdl3
    \/ init_audio_sdl2
    \/ /\ variant = "sdl2"
       /\ \E outcome \in LoadOutcomes2 : \E ld \in LoadsFor(outcome) :
            \E have \in HaveFor(outcome), abort \in AbortChoices :
              set_audio_data_sdl2(LoadBuffer(ld), ld.ch, ld.rate, outcome,
                                  have[1], have[2], abort)
    \/ play_sdl2
    \/ pause_audio_sdl2
    \/ resume_audio_sdl2
    \/ \E abort \in AbortChoices : stop_sdl2(abort)
    \/ /\ variant = "sdl2"
       /\ \E time \in SeekTimes : seek_sdl2(time)
    \/ \E vol \in Volumes : set_volume_sdl2(vol)
    \/ \E abort \in AbortChoices : cleanup_sdl2(abort)
    \/ Drain

Spec == Init /\ [][Next]_vars

\* the same program under a host that also passes formats with no channel
\* or no rate.  SDL refuses to create a stream for such a format; SDL2's
\* SDL_OpenAudioDevice replaces a 0 in `want` by its default and opens.
InvalidLoads ==
    {ld \in [track : {NextTrack}, n : {MaxFrames},
             ch : {0} \cup Channels, rate : {0} \cup Rates] :
        ld.ch = 0 \/ ld.rate = 0}

set_audio_data_invalid_sdl3 ==
    /\ variant = "sdl3"
    /\ \E outcome \in AllocFailures \cup {"stream_fail"} :
         \E ld \in IF outcome \in AllocFailures THEN {AnyLoad} ELSE InvalidLoads :
           set_audio_data_sdl3(LoadBuffer(ld), ld.ch, ld.rate, outcome)

set_audio_data_invalid_sdl2 ==
    /\ variant = "sdl2"
    /\ \E outcome \in AllocFailures \cup {"open_fail", "stream_fail"} :
         \E ld \in IF outcome \in AllocFailures THEN {AnyLoad} ELSE InvalidLoads :
           \E have \in HaveFor(outcome), abort \in AbortChoices :
             set_audio_data_sdl2(LoadBuffer(ld), ld.ch, ld.rate, outcome,
                                 have[1], have[2], abort)

NextAnyFormat ==
    \/ Next
    \/ set_audio_data_invalid_sdl3
    \/ set_audio_data_invalid_sdl2

SpecAnyFormat == Init /\ [][NextAnyFormat]_vars

SpecWatch == InitWatch /\ [][Next]_vars

\* the same program under a host that stops calling at some moment, and a
\* device that keeps consuming what is queued on it while it runs
HostStops ==
    /\ ~quiet /\ ~aborted
    /\ quiet' = TRUE /\ lastOp' = "host_stops" /\ again' = FALSE
    /\ UNCHANGED <<variant, engine, sdl, prePlaying, watch, observed, within>>

HostCalls == ~quiet /\ Next

DeviceRuns == quiet /\ Drain

NextQuiet ==
    \/ HostCalls
    \/ HostStops
    \/ DeviceRuns

SpecQuiet == Init /\ [][NextQuiet]_vars /\ WF_vars(Drain)

\* ------------------------------------------------------------------ claims

\* the last load went through and the device it needs is open
Loaded == audioBuffer # <<>> /\ stream = "live" /\ deviceId = "open"
          /\ (variant = "sdl3" => streamBound)

\* |time - t / TimeDen| <= one frame = 1 / sampleRate
Abs(x) == IF x < 0 THEN -x ELSE x
WithinOneFrame(time, t) ==
    Abs(time[1] * TimeDen - t * time[2]) * sampleRate <= time[2] * TimeDen

\* C1: right after seek(t) with 0 <= t <= totalDuration on a loaded buffer,
\* playing or not, get_current_time() is t to within one frame.  Stated for
\* the states whose load succeeded, so that no failed SDL call is involved.
C1_SeekExact ==
    [][\A t \in SeekTimes :
         (/\ seek_sdl3(t) \/ seek_sdl2(t)
          /\ Loaded /\ ~aborted'
          /\ 0 <= t
          /\ t * TotalDuration[2] <= TotalDuration[1] * TimeDen)
         => WithinOneFrame(get_current_time', t)]_vars

\* C2: after a load of a non-empty buffer, isPlaying is false and
\* get_current_time() is 0.  Stated for the loads that succeed.
C2_LoadResets ==
    (lastOp = "set_audio_data" /\ Loaded)
        => (~isPlaying /\ TimeEQ(get_current_time, TimeZero))
ControlOps == {"drain", "pause_audio", "play", "resume_audio", "set_volume"}

\* C3: over drain steps and pause/play/resume/set_volume calls, with no seek,
\* stop, load or cleanup, the times reported while isPlaying never decrease:
\* the time now is at least the last one reported while playing.
C3_MonotonicTime ==
    [][(lastOp' \in ControlOps /\ isPlaying' /\ observed # <<>>)
         => TimeLE(observed, get_current_time')]_vars

\* C4: pause_audio() in a playing state followed directly by play() leaves
\* the pending amount and the reported time as they were before the pause.
C4_PausePlayContinuity ==
    [][/\ (lastOp' = "pause_audio" /\ isPlaying)
            => (QueuedBytes' = QueuedBytes
                /\ TimeEQ(get_current_time', get_current_time))
       /\ (lastOp = "pause_audio" /\ prePlaying /\ lastOp' = "play")
            => (QueuedBytes' = QueuedBytes
                /\ TimeEQ(get_current_time', get_current_time))]_vars

\* C5: whenever isPlaying, the pipeline holds unconsumed data or
\* playHead == length.
C5_PlayingInvariant ==
    (~aborted /\ isPlaying) => (QueuedBytes > 0 \/ playHead = Len(audioBuffer))

\* the pipeline holding exactly audioBuffer[from, length), as one enqueue
\* leaves it: nothing if the segment is empty or converts to no device frame
SegmentQueue(from) ==
    LET n == Len(audioBuffer) - from
        bytes == IF variant = "sdl3" THEN n * SizeofFloat
                 ELSE (((n \div channels) * deviceFreq) \div sampleRate)
                      * deviceChannels * SizeofFloat
    IN  IF bytes = 0 THEN <<>>
        ELSE <<[data |-> [i \in 1..n |-> audioBuffer[from + i]], bytes |-> bytes]>>

\* C6: in every state with a loaded buffer and playHead < length, after
\* play() isPlaying is true and the pipeline is non-empty, holding what it
\* held (> 0) or exactly [playHead, length).  Stated for the SDL3 variant
\* with its stream bound, where no conversion and no failed call is involved.
C6_PlayGuarantee ==
    [][(lastOp' = "play" /\ variant = "sdl3" /\ Loaded
        /\ playHead < Len(audioBuffer))
         => (/\ isPlaying'
             /\ QueuedBytes' > 0
             /\ \/ queue' = queue
                \/ queue' = SegmentQueue(playHead))]_vars

\* what play() would leave
play_post == IF variant = "sdl3" THEN play_sdl3_post ELSE play_sdl2_post

\* C7: resume_audio() called while not playing leaves the state play() would.
C7_ResumeIsPlay ==
    [][(lastOp' = "resume_audio" /\ ~isPlaying)
         => (/\ isPlaying' = play_post.isPlaying
             /\ playHead' = playHead
             /\ queue' = play_post.queue
             /\ devicePaused' = play_post.devicePaused)]_vars

\* C8: after seek(t) on a loaded buffer the pipeline holds exactly
\* [playHead', length) if isPlaying and nothing otherwise.
C8_SeekDiscardsStale ==
    [][(lastOp' = "seek" /\ audioBuffer # <<>> /\ ~aborted')
         => queue' = IF isPlaying' THEN SegmentQueue(playHead') ELSE <<>>]_vars

\* C9: after stop() nothing is pending, playHead is 0 and isPlaying is false;
\* the buffer, its format and the volume are untouched.
C9_StopPostcondition ==
    [][(lastOp' = "stop" /\ ~aborted')
         => (/\ QueuedBytes' = 0 /\ playHead' = 0 /\ ~isPlaying'
             /\ audioBuffer' = audioBuffer /\ channels' = channels
             /\ sampleRate' = sampleRate /\ volume' = volume)]_vars

\* C10: 0 <= playHead <= length and playHead is frame-aligned, always (every
\* load of the model passes channels > 0 and whole frames).
C10_PlayHeadBounds ==
    ~aborted => (/\ 0 <= playHead /\ playHead <= Len(audioBuffer)
                 /\ playHead % channels = 0)

\* C11: seek(t) with t beyond the total duration of a loaded buffer sets
\* playHead to the length, and get_current_time() then returns the total
\* duration, playing or paused.
C11_ClampCorrect ==
    [][\A t \in SeekTimes :
         (/\ seek_sdl3(t) \/ seek_sdl2(t)
          /\ Loaded /\ ~aborted'
          /\ t * TotalDuration[2] > TotalDuration[1] * TimeDen)
         => (/\ playHead' = Len(audioBuffer)
             /\ TimeEQ(get_current_time', TotalDuration))]_vars

\* a stream exists and is attached to an open device
Bound == stream = "live" /\ deviceId = "open"
         /\ (variant = "sdl3" => streamBound)

\* C12: a set_audio_data that fails (no copy, no device, no stream or no
\* binding at its return) leaves the buffer, the format, playHead, isPlaying
\* and the previous binding with its queued data as they were.
C12_FailedLoadAtomic ==
    [][(lastOp' = "set_audio_data" /\ ~aborted' /\ ~Bound')
         => UNCHANGED <<audioBuffer, channels, sampleRate, playHead, isPlaying,
                        stream, streamBound, deviceId, queue>>]_vars

\* C13: a set_audio_data with channels <= 0 or sampleRate <= 0 leaves every
\* field of the engine and its binding unchanged, so that channels > 0 and
\* sampleRate > 0 in every state and no call divides by zero.
C13_InvalidFormatRejected ==
    [][/\ (set_audio_data_invalid_sdl3 \/ set_audio_data_invalid_sdl2)
            => UNCHANGED <<audioBuffer, channels, sampleRate, playHead,
                           isPlaying, stream, streamBound, deviceId, queue>>
       /\ channels' > 0 /\ sampleRate' > 0]_vars

C15_CleanupResets ==
    [][(lastOp' = "cleanup" /\ ~aborted')
         => (/\ stream' = "nullptr" /\ deviceId' = "0"
             /\ audioBuffer' = <<>>
             /\ ~isPlaying' /\ playHead' = 0)]_vars

\* C16: once the host has stopped calling with a loaded buffer playing, the
\* device (weakly fair) drains the pipeline: eventually nothing is pending
\* and get_current_time() is the total duration, and it stays so.
PlayingAtLastCall == quiet /\ isPlaying /\ Loaded
Completed == QueuedBytes = 0 /\ TimeEQ(get_current_time, TotalDuration)
C17_IdempotentPausePlay ==
    [][again' => (engine' = engine /\ sdl' = sdl)]_vars

C17_Witness ==
    /\ again /\ lastOp = "play" /\ isPlaying /\ Loaded
    /\ Len(queue) = 1 /\ queue[1].bytes = Len(audioBuffer) * SizeofFloat

\* C18: no use after release.  Every handle stored in the engine state is
\* null/0 or refers to a live resource, so that no call can pass a released
\* stream or device to SDL or release one twice.
C18_NoUseAfterRelease ==
    stream \in {"nullptr", "live"} /\ deviceId \in {"0", "open"}

C20_VolumeFollowsBinding ==
    (variant = "sdl3" /\ stream = "live" /\ streamBound) => streamGain = volume
====
